---- MODULE Spec2Model ----
(***************************************************************************)
(* Model of src/app.py (Telegram news bot): the headline fetch get_news,   *)
(* the process-wide schedule of the `schedule` library as app.py uses it   *)
(* (clear / every().day.at().do / run_pending), the scheduler_loop threads *)
(* and the two foreground handlers of the Streamlit script.                *)
(*                                                                         *)
(* The specifications:                                                     *)
(*   SpecFetch    get_news applied to bounded inputs (source list, cap and *)
(*                one provider response per known source).                 *)
(*   Spec         the process: sessions running the script, scheduler      *)
(*                threads, the shared schedule and an abstract clock.      *)
(*   SpecUI       the foreground handlers with the network calls they make.*)
(*   SpecCapture  the widgets, the saves that read them and the parameters *)
(*                a job's closure is called with.                          *)
(*   SpecPipe     a "Send Now (Test)" run and a background_job run side by *)
(*                side, statement by statement; SpecPipeFair adds that     *)
(*                their statements are executed.                           *)
(***************************************************************************)
EXTENDS Integers, Sequences, FiniteSets, TLC

VARIABLES
    \* ---- get_news (SpecFetch) ----
    fsources,   \* argument `sources`: ordered list of source ids
    fresp,      \* what the provider answers for each known source id
    fcap,       \* argument `max_total`
    fpc,        \* "call" before get_news ran, "done" after it returned
    fout,       \* what the call did: see GetNews
    \* ---- process (Spec) ----
    now,        \* abstract wall clock, in slots; DayLen slots make a day
    chatNumeric,\* TELEGRAM_CHAT_ID.strip().isdigit()
    loaded,     \* loaded[s]: session s has "sched_thread_started" in its session_state
    spc,        \* spc[s]: "idle", or "arming" between schedule.clear() and .do()
    sarg,       \* sarg[s]: the script run's locals (send_time, sources) while arming
    jobs,       \* schedule.jobs of the default scheduler: list of job ids
    njobs,      \* number of Job objects created so far
    jat,        \* jat[j]: at_time of job j
    jnext,      \* jnext[j]: next_run of job j
    jlast,      \* jlast[j]: last_run of job j (None = -1)
    jsrc,       \* jsrc[j]: the sources captured by job j's closure
    tpc,        \* tpc[t]: "none" (no thread), "sleep", "picked", "running"
    tqueue,     \* tqueue[t]: the runnable jobs run_pending still has to run
    tpolled,    \* tpolled[t]: thread t called run_pending in the current slot
    \* ---- history ----
    invToday,   \* invToday[j]: invocations of job j's closure in the current day
    tquiet,     \* tquiet[t]: t ran run_pending since the schedule was last switched off
    replaced,   \* jobs a completed save-with-activation removed, while a thread can still run them
    off,        \* "ok"/"rej": an unchecked save (accepted/rejected) completed, no job added since
    scleared,   \* scleared[s]: the job ids the save of s removed by its clear()
    net,        \* the last foreground operation: validity of its configuration, its GETs and POSTs
    jerr,       \* jerr[j]: a run of job j ended in the except clause of background_job
    rej,        \* the last rejected save: the schedule it met, and whether it changed it
    \* ---- widgets and captured parameters (SpecCapture) ----
    ui,         \* ui[s]: the widgets of session s (sources, send_time, activate)
    lastfire,   \* the last invocation of a job's closure: the job and the sources it was given
    \* ---- the two pipelines (SpecPipe) ----
    ppc,        \* ppc[p]: "idle", "fetch", "format", "send", "done"
    psrc,       \* psrc[p]: the argument `sources`
    pidx,       \* pidx[p]: position of `for src in sources`
    phl,        \* phl[l]: the list `headlines` l of get_news
    presp,      \* presp[p]: what the provider answered to the GETs of p
    pbatch,     \* pbatch[p]: the batch get_news returned
    pdate,      \* pdate[p]: date_str
    pmsg,       \* pmsg[p]: the text handed to send_telegram_message
    pout,       \* pout[p]: how the POST ended
    ppost,      \* ppost[p]: requests.post calls since the trigger
    psend,      \* psend[p]: what send_telegram_message returned and logged
    pover       \* pover[p]: the other pipeline was running during this run of p

fvars == <<fsources, fresp, fcap, fpc, fout>>
pvars == <<now, chatNumeric, loaded, spc, sarg, jobs, njobs, jat, jnext, jlast, jsrc,
           tpc, tqueue, tpolled>>
hvars == <<invToday, tquiet, replaced, off, scleared, net, jerr, rej>>
wvars == <<ui, lastfire>>
qvars == <<ppc, psrc, pidx, phl, presp, pbatch, pdate, pmsg, pout, ppost, psend, pover>>
vars == <<fvars, pvars, hvars, wvars, qvars>>

(***************************************************************************)
(* Bounds                                                                  *)
(***************************************************************************)
MaxArticles == 2      \* articles in one provider response
MaxCapSmall == 2      \* caps 1..MaxCapSmall are tried beside the default cap
MaxJobs == 2          \* Job objects created in one behaviour
MaxTime == 3          \* last clock slot
DayLen == 2           \* slots in a day

DefaultCap == 5       \* max_total=5

(***************************************************************************)
(* Provider data                                                           *)
(***************************************************************************)
\* NEWS_SOURCES_MAP: the ids the model uses, two of the six keys.
KnownSources == {"bbc-news", "cnn"}
\* An id that NEWS_SOURCES_MAP.get(src) maps to None.
SourceIds == KnownSources \cup {"nosuch"}

Titles == {"A", "B", "C"}
\* art.get("title") when the title is missing, None or "".
NoTitle == ""
Placeholder == "No news headlines found."

SeqsUpTo(S, n) == UNION {[1..k -> S] : k \in 0..n}

\* One HTTP exchange of get_news:
\*   exc      requests.get raises (connection error, timeout)
\*   badjson  response.json() raises
\*   notok    JSON whose "status" is not "ok"
\*   ok       JSON with status "ok" and the articles' titles
Responses ==
    {[kind |-> "exc", articles |-> <<>>],
     [kind |-> "badjson", articles |-> <<>>],
     [kind |-> "notok", articles |-> <<>>]}
    \cup {[kind |-> "ok", articles |-> a] : a \in SeqsUpTo(Titles \cup {NoTitle}, MaxArticles)}

Raises(r) == r.kind \in {"exc", "badjson"}

\* Lists of distinct source ids.
SourceLists ==
    {s \in SeqsUpTo(SourceIds, Cardinality(SourceIds)) :
        \A i, j \in 1..Len(s) : i # j => s[i] # s[j]}

Caps == (1..MaxCapSmall) \cup {DefaultCap}

InSeq(x, s) == \E i \in 1..Len(s) : s[i] = x
Take(s, n) == IF Len(s) <= n THEN s ELSE SubSeq(s, 1, n)

(***************************************************************************)
(* get_news                                                                *)
(***************************************************************************)
\* NEWS_SOURCES_MAP.get(src) is not None.
IsKnown(src) == src \in KnownSources

KeepTitleNoDedup(title, headlines) == title # NoTitle
KeepTitleAllowEmpty(title, headlines) == ~InSeq(title, headlines)
\* `if title and title not in headlines`
KeepTitle(title, headlines) == title # NoTitle /\ ~InSeq(title, headlines)

CapReachedLate(headlines, max_total) == Len(headlines) > max_total
\* `len(headlines) >= max_total`, the test of both breaks.
CapReached(headlines, max_total) == Len(headlines) >= max_total

\* The inner loop `for art in articles`, from article k on.
RECURSIVE ExtractTitles(_, _, _, _)
ExtractTitles(headlines, articles, k, max_total) ==
    IF k > Len(articles) THEN headlines
    ELSE IF KeepTitle(articles[k], headlines)
         THEN LET h2 == Append(headlines, articles[k])
              IN  IF CapReached(h2, max_total) THEN h2
                  ELSE ExtractTitles(h2, articles, k + 1, max_total)
         ELSE ExtractTitles(headlines, articles, k + 1, max_total)

\* The body of the try: `for src in sources`, from position i on, with the
\* headlines and the GETs so far. An exception leaves the loop for the except
\* clause, which logs once; nothing else in get_news logs.
RECURSIVE SourceLoop(_, _, _, _, _, _)
SourceLoop(sources, resp, max_total, i, headlines, gets) ==
    IF i > Len(sources) THEN [headlines |-> headlines, gets |-> gets, logs |-> 0]
    ELSE IF ~IsKnown(sources[i])
         THEN SourceLoop(sources, resp, max_total, i + 1, headlines, gets)
    ELSE LET r == resp[sources[i]]
             g2 == Append(gets, sources[i])
         IN  IF Raises(r)
             THEN [headlines |-> headlines, gets |-> g2, logs |-> 1]
             ELSE LET h2 == IF r.kind = "ok"
                            THEN ExtractTitles(headlines, r.articles, 1, max_total)
                            ELSE headlines
                  IN  IF CapReached(h2, max_total)
                      THEN [headlines |-> h2, gets |-> g2, logs |-> 0]
                      ELSE SourceLoop(sources, resp, max_total, i + 1, h2, g2)

\* `if not headlines: headlines.append(placeholder)`; `return headlines[:max_total]`
ReturnBatch(headlines, max_total) ==
    Take(IF headlines = <<>> THEN <<Placeholder>> ELSE headlines, max_total)

\* get_news(api_key, sources, max_total) against the provider answers resp:
\*   ret   the returned batch        gets  the sources a GET was issued for, in order
\*   logs  logging.error calls       ph    the placeholder was appended
\*   collected  `headlines` when the try statement was left
GetNews(sources, resp, max_total) ==
    LET l == SourceLoop(sources, resp, max_total, 1, <<>>, <<>>)
    IN  [ret |-> ReturnBatch(l.headlines, max_total),
         gets |-> l.gets,
         logs |-> l.logs,
         ph |-> (l.headlines = <<>>),
         collected |-> l.headlines]

NoCall == [ret |-> <<>>, gets |-> <<>>, logs |-> 0, ph |-> FALSE, collected |-> <<>>]

(***************************************************************************)
(* Initial values of the two halves of the state                           *)
(***************************************************************************)
Sessions == {"s1", "s2"}
JobIds == 1..MaxJobs
NoOp == [op |-> "none", bad |-> FALSE, gets |-> 0, posts |-> 0]
NoRejected == [met |-> "none", changed |-> FALSE]

\* The widgets of a session that has touched none: every source of the map
\* selected, the default send time, activation unchecked.
WidgetDefaults == [sources |-> <<"bbc-news", "cnn">>, at |-> 0, act |-> FALSE]
NoFire == [job |-> 0, sources |-> <<>>]

\* The two pipelines: the "Send Now (Test)" handler of a session and
\* background_job invoked by a scheduler thread.
Pipes == {"manual", "fire"}
\* No GET was issued for the source; no POST was made; no send returned.
NoResp == [kind |-> "none", articles |-> <<>>]
NoPost == [kind |-> "none", code |-> 0]
NoSend == [ret |-> FALSE, raised |-> FALSE, infos |-> 0, errors |-> 0]

\* No pipeline runs.
PipeIdle ==
    /\ ppc = [p \in Pipes |-> "idle"]
    /\ psrc = [p \in Pipes |-> <<>>]
    /\ pidx = [p \in Pipes |-> 0]
    /\ phl = [p \in Pipes |-> <<>>]
    /\ presp = [p \in Pipes |-> [k \in KnownSources |-> NoResp]]
    /\ pbatch = [p \in Pipes |-> <<>>]
    /\ pdate = [p \in Pipes |-> ""]
    /\ pmsg = [p \in Pipes |-> ""]
    /\ pout = [p \in Pipes |-> NoPost]
    /\ ppost = [p \in Pipes |-> 0]
    /\ psend = [p \in Pipes |-> NoSend]
    /\ pover = [p \in Pipes |-> FALSE]

\* No get_news call is being examined.
FetchIdle ==
    /\ fsources = <<>>
    /\ fresp = [k \in KnownSources |-> [kind |-> "notok", articles |-> <<>>]]
    /\ fcap = DefaultCap
    /\ fpc = "idle"
    /\ fout = NoCall

\* The process right after start: no session has run the script, the
\* default scheduler holds no job, no thread exists.
ProcStart ==
    /\ now = 0
    /\ loaded = [s \in Sessions |-> FALSE]
    /\ spc = [s \in Sessions |-> "idle"]
    /\ sarg = [s \in Sessions |-> [at |-> 0, sources |-> <<>>]]
    /\ jobs = <<>>
    /\ njobs = 0
    /\ jat = [j \in JobIds |-> 0]
    /\ jnext = [j \in JobIds |-> 0]
    /\ jlast = [j \in JobIds |-> -1]
    /\ jsrc = [j \in JobIds |-> <<>>]
    /\ tpc = [t \in Sessions |-> "none"]
    /\ tqueue = [t \in Sessions |-> <<>>]
    /\ tpolled = [t \in Sessions |-> FALSE]
    /\ invToday = [j \in JobIds |-> 0]
    /\ tquiet = [t \in Sessions |-> FALSE]
    /\ replaced = {}
    /\ off = "no"
    /\ scleared = [s \in Sessions |-> {}]
    /\ net = NoOp
    /\ jerr = [j \in JobIds |-> FALSE]
    /\ rej = NoRejected
    /\ ui = [s \in Sessions |-> WidgetDefaults]
    /\ lastfire = NoFire
    /\ PipeIdle

(***************************************************************************)
(* SpecFetch: one call of get_news on every bounded input                  *)
(***************************************************************************)
FetchInit ==
    /\ fsources \in SourceLists
    /\ fresp \in [KnownSources -> Responses]
    /\ fcap \in Caps
    /\ fpc = "call"
    /\ fout = NoCall
    /\ ProcStart
    /\ chatNumeric = TRUE

CallGetNews ==
    /\ fpc = "call"
    /\ fout' = GetNews(fsources, fresp, fcap)
    /\ fpc' = "done"
    /\ UNCHANGED <<fsources, fresp, fcap, pvars, hvars, wvars, qvars>>

FetchNext == CallGetNews

SpecFetch == FetchInit /\ [][FetchNext]_vars

(***************************************************************************)
(* Claims about get_news                                                   *)
(***************************************************************************)
Queried(src) == InSeq(src, fout.gets)
Failed(r) == r.kind # "ok"
NoDuplicates(s) == \A i, j \in 1..Len(s) : i # j => s[i] # s[j]

\* C1: a source whose request fails (exception, non-"ok" status, unparsable
\* body) never ends the fetch: while the cap is not reached every later known
\* source is still queried and the titles of the later successful ones are in
\* the result.
C1_FailureNeverEndsFetch ==
    fpc = "done" =>
        \A i \in 1..Len(fsources) :
            (IsKnown(fsources[i]) /\ Queried(fsources[i]) /\ Failed(fresp[fsources[i]])
             /\ ~CapReached(fout.collected, fcap))
            => \A j \in (i + 1)..Len(fsources) :
                   IsKnown(fsources[j]) =>
                       /\ Queried(fsources[j])
                       /\ fresp[fsources[j]].kind = "ok" =>
                              \A k \in 1..Len(fresp[fsources[j]].articles) :
                                  fresp[fsources[j]].articles[k] # NoTitle =>
                                      InSeq(fresp[fsources[j]].articles[k], fout.ret)

\* C1, the logging half: every failed request leaves a log entry.
C1_FailureLogged ==
    fpc = "done" =>
        \A i \in 1..Len(fsources) :
            (IsKnown(fsources[i]) /\ Queried(fsources[i]) /\ Failed(fresp[fsources[i]]))
            => fout.logs >= 1

\* C8: for every source list, cap >= 1 and combination of responses, the batch
\* get_news returns has between 1 and cap headlines and no headline twice.
C8_BatchBounded ==
    fpc = "done" =>
        /\ Len(fout.ret) >= 1
        /\ Len(fout.ret) <= fcap
        /\ NoDuplicates(fout.ret)

\* C8 witness: two sources answer, a title repeats within one source and
\* across the two, and the batch is cut at the cap.
C8_Witness ==
    /\ fpc = "done"
    /\ fsources = <<"bbc-news", "cnn">>
    /\ fresp["bbc-news"] = [kind |-> "ok", articles |-> <<"A", "A">>]
    /\ fresp["cnn"] = [kind |-> "ok", articles |-> <<"A", "B">>]
    /\ fcap = 2
    /\ fout.ret = <<"A", "B">>

\* The titles of the listed sources that answered "ok", in list order then
\* provider order, from position i on.
RECURSIVE ConcatTitles(_, _, _)
ConcatTitles(sources, resp, i) ==
    IF i > Len(sources) THEN <<>>
    ELSE (IF IsKnown(sources[i]) /\ resp[sources[i]].kind = "ok"
          THEN resp[sources[i]].articles ELSE <<>>)
         \o ConcatTitles(sources, resp, i + 1)

\* s without its empty titles and without every title seen earlier in s.
RECURSIVE FirstOccurrences(_, _)
FirstOccurrences(s, k) ==
    IF k = 0 THEN <<>>
    ELSE LET before == FirstOccurrences(s, k - 1)
         IN  IF s[k] = NoTitle \/ (\E m \in 1..(k - 1) : s[m] = s[k])
             THEN before ELSE Append(before, s[k])

Reference(sources, resp, cap) ==
    LET all == ConcatTitles(sources, resp, 1)
    IN  Take(FirstOccurrences(all, Len(all)), cap)

AllQueriedWellFormed == \A src \in KnownSources : Queried(src) => ~Raises(fresp[src])

\* C9 as stated: when every queried source answers with a well-formed
\* response, the batch is the first cap titles of the concatenation, empty
\* titles and repeats dropped.
C9_BatchIsReference ==
    (fpc = "done" /\ AllQueriedWellFormed)
        => fout.ret = Reference(fsources, fresp, fcap)

\* C9 amended: the same whenever that sequence has at least one title; when
\* it has none the batch is the placeholder batch. The scenario of the
\* specification ([A,B,A] and [C], cap 5) gives [A,B,C].
C9_BatchIsReferenceOrPlaceholder ==
    /\ (fpc = "done" /\ AllQueriedWellFormed) =>
           fout.ret = (IF Reference(fsources, fresp, fcap) = <<>>
                       THEN <<Placeholder>>
                       ELSE Reference(fsources, fresp, fcap))
    /\ GetNews(<<"bbc-news", "cnn">>,
               [k \in KnownSources |->
                   IF k = "bbc-news" THEN [kind |-> "ok", articles |-> <<"A", "B", "A">>]
                   ELSE [kind |-> "ok", articles |-> <<"C">>]],
               DefaultCap).ret = <<"A", "B", "C">>

\* C9 witness: both sources answer, the second repeats a title of the first
\* and adds one, an empty title is dropped.
C9_Witness ==
    /\ fpc = "done"
    /\ fsources = <<"bbc-news", "cnn">>
    /\ fresp["bbc-news"] = [kind |-> "ok", articles |-> <<"A", "B">>]
    /\ fresp["cnn"] = [kind |-> "ok", articles |-> <<"A", "C">>]
    /\ fcap = DefaultCap
    /\ fout.ret = <<"A", "B", "C">>

\* Every listed source is unknown, fails, or has no non-empty title.
AllBarren ==
    \A i \in 1..Len(fsources) :
        \/ ~IsKnown(fsources[i])
        \/ Failed(fresp[fsources[i]])
        \/ \A k \in 1..Len(fresp[fsources[i]].articles) :
               fresp[fsources[i]].articles[k] = NoTitle

\* C10: the batch is exactly the placeholder batch when the list is empty or
\* every source is unknown, fails or yields no title, and the placeholder is
\* in the batch in that case only.
C10_PlaceholderIffAllBarren ==
    fpc = "done" =>
        /\ AllBarren => fout.ret = <<Placeholder>>
        /\ InSeq(Placeholder, fout.ret) => AllBarren

\* C10, the half that holds: the placeholder never stands beside a fetched
\* headline, and it is returned when every source is barren.
C10_PlaceholderAlone ==
    fpc = "done" =>
        /\ AllBarren => fout.ret = <<Placeholder>>
        /\ fout.ph => fout.ret = <<Placeholder>>
        /\ InSeq(Placeholder, fout.ret) <=> fout.collected = <<>>

\* C16: get_news issues at most one GET per listed source, every GET is for
\* a listed id of the fixed map, and a source is queried only while the
\* sources before it have yielded fewer than cap distinct non-empty titles.
C16_GetsBounded ==
    fpc = "done" =>
        /\ NoDuplicates(fout.gets)
        /\ \A k \in 1..Len(fout.gets) :
               IsKnown(fout.gets[k]) /\ InSeq(fout.gets[k], fsources)
        /\ \A i \in 1..Len(fsources) :
               Queried(fsources[i]) =>
                   Len(Reference(SubSeq(fsources, 1, i - 1), fresp, fcap)) < fcap

\* C16 witness: an unknown id is skipped, the next source fills the cap and
\* the known source after it is not queried.
C16_Witness ==
    /\ fpc = "done"
    /\ fsources = <<"nosuch", "bbc-news", "cnn">>
    /\ fresp["bbc-news"] = [kind |-> "ok", articles |-> <<"A", "B">>]
    /\ fcap = 2
    /\ fout.gets = <<"bbc-news">>

(***************************************************************************)
(* The schedule library as app.py uses it                                  *)
(***************************************************************************)
DayOf(t) == t \div DayLen
TimeOfDay(t) == t % DayLen
TimesOfDay == 0..(DayLen - 1)

\* What st.multiselect can hand the handlers.
Selections == {<<>>, <<"bbc-news">>, <<"bbc-news", "cnn">>}

\* The answers the provider gives while the process runs.
LiveResponses ==
    {[kind |-> "exc", articles |-> <<>>],
     [kind |-> "notok", articles |-> <<>>],
     [kind |-> "ok", articles |-> <<"A">>]}

\* Job._schedule_next_run for every().day.at(at): tomorrow at `at`, or today
\* when the job never ran (or ran more than a day before that) and `at` is
\* still ahead today.
NextRun(t, at, last) ==
    LET tomorrow == (DayOf(t) + 1) * DayLen + at
    IN  IF (last = -1 \/ tomorrow - last > DayLen) /\ at > TimeOfDay(t)
        THEN tomorrow - DayLen
        ELSE tomorrow

\* Job.should_run
ShouldRun(j) == now >= jnext[j]

\* sorted(): insertion of job j by next_run, after the jobs not later than it.
RECURSIVE InsertByNext(_, _)
InsertByNext(j, q) ==
    IF q = <<>> THEN <<j>>
    ELSE IF jnext[j] < jnext[Head(q)] THEN <<j>> \o q
         ELSE <<Head(q)>> \o InsertByNext(j, Tail(q))

\* run_pending's `sorted(job for job in self.jobs if job.should_run)`,
\* over the first k jobs of js.
RECURSIVE Runnable(_, _)
Runnable(js, k) ==
    IF k = 0 THEN <<>>
    ELSE IF ShouldRun(js[k]) THEN InsertByNext(js[k], Runnable(js, k - 1))
         ELSE Runnable(js, k - 1)

ScheduleClearKeep(js) == js
\* schedule.clear(): `del self.jobs[:]`
ScheduleClear(js) == <<>>

JobSet(js) == {js[i] : i \in 1..Len(js)}

LoopPcUncaught(raised, rest) ==
    IF raised THEN "dead" ELSE IF rest = <<>> THEN "sleep" ELSE "picked"
\* Where scheduler_loop is once background_job has ended. What the body of
\* background_job raises is caught by its own except clause, and what
\* run_pending raises by the one of the loop: run_pending goes on with the
\* jobs left, or returns and the loop sleeps.
LoopPc(raised, rest) == IF rest = <<>> THEN "sleep" ELSE "picked"

\* The else branch of the save handler is reached.
SaveAccepted(src) == chatNumeric /\ src # <<>>
\* The else branch of the send handler is reached.
SendAccepted(src) == src # <<>>
ClearBeforeValidation(accepted, js) == ScheduleClear(js)
\* schedule.jobs after the validation chain of the save handler:
\* schedule.clear() is the first statement of its else branch.
ValidatedClear(accepted, js) == IF accepted THEN ScheduleClear(js) ELSE js

\* The configuration as the specification defines validity: secrets
\* present (checked at script start), numeric chat id, a source selected.
ConfigValid(src) == chatNumeric /\ src # <<>>

\* The Job objects still referenced: by schedule.jobs or by the list a
\* run_pending is working through. The others are garbage: their fields are
\* reset, so that two states differing only in garbage are one state.
Live(js, tq) == JobSet(js) \cup UNION {JobSet(tq[t]) : t \in Sessions}
Collect(f, none, live) == [j \in JobIds |-> IF j \in live THEN f[j] ELSE none]

\* The jobs a completed save has removed from the schedule: every job
\* created that is neither scheduled nor held by a save still under way.
Discarded ==
    (1..njobs) \ (JobSet(jobs) \cup UNION {scleared[s] : s \in Sessions})

\* A save with activation that has cleared an armed schedule and not yet
\* added its job.
Replacing == \E s \in Sessions : spc[s] = "arming" /\ scleared[s] # {}

(***************************************************************************)
(* The script runs of the sessions. The handlers leave `net` to the        *)
(* specification: Spec ignores the network, SpecUI records it.             *)
(***************************************************************************)
Init ==
    /\ FetchIdle
    /\ ProcStart
    /\ chatNumeric \in BOOLEAN

\* First run of the script in session s: the guard on session_state starts
\* a scheduler_loop thread.
OpenSession(s) ==
    /\ ~loaded[s]
    /\ loaded' = [loaded EXCEPT ![s] = TRUE]
    /\ tpc' = [tpc EXCEPT ![s] = "sleep"]
    /\ UNCHANGED <<fvars, wvars, qvars, now, chatNumeric, spc, sarg, jobs, njobs, jat, jnext, jlast,
                   jsrc, tqueue, tpolled, invToday, tquiet, replaced, off, scleared, jerr>>

\* "Save Settings & Schedule" with a configuration the handler rejects.
SaveRejected(s, src, act) ==
    /\ loaded[s] /\ spc[s] = "idle"
    /\ ~SaveAccepted(src)
    /\ jobs' = ValidatedClear(SaveAccepted(src), jobs)
    /\ LET live == Live(ValidatedClear(SaveAccepted(src), jobs), tqueue)
       IN  /\ jat' = Collect(jat, 0, live)
           /\ jnext' = Collect(jnext, 0, live)
           /\ jlast' = Collect(jlast, -1, live)
           /\ jsrc' = Collect(jsrc, <<>>, live)
           /\ jerr' = Collect(jerr, FALSE, live)
    /\ off' = IF ~act /\ off = "no" THEN "rej" ELSE off
    /\ UNCHANGED <<fvars, wvars, qvars, now, chatNumeric, loaded, spc, sarg, njobs,
                   tpc, tqueue, tpolled, invToday, tquiet, replaced, scleared>>

\* "Save Settings & Schedule", accepted, activation unchecked.
SaveOff(s, src) ==
    /\ loaded[s] /\ spc[s] = "idle"
    /\ SaveAccepted(src)
    /\ jobs' = ValidatedClear(SaveAccepted(src), jobs)
    /\ LET live == Live(ValidatedClear(SaveAccepted(src), jobs), tqueue)
       IN  /\ jat' = Collect(jat, 0, live)
           /\ jnext' = Collect(jnext, 0, live)
           /\ jlast' = Collect(jlast, -1, live)
           /\ jsrc' = Collect(jsrc, <<>>, live)
           /\ jerr' = Collect(jerr, FALSE, live)
    /\ off' = "ok"
    /\ UNCHANGED <<fvars, wvars, qvars, now, chatNumeric, loaded, spc, sarg, njobs,
                   tpc, tqueue, tpolled, invToday, tquiet, replaced, scleared>>

\* "Save Settings & Schedule", accepted, activation checked: schedule.clear().
SaveClear(s, src, at) ==
    /\ loaded[s] /\ spc[s] = "idle"
    /\ njobs + Cardinality({r \in Sessions : spc[r] = "arming"}) < MaxJobs
    /\ SaveAccepted(src)
    /\ sarg' = [sarg EXCEPT ![s] = [at |-> at, sources |-> src]]
    /\ jobs' = ValidatedClear(SaveAccepted(src), jobs)
    /\ LET live == Live(ValidatedClear(SaveAccepted(src), jobs), tqueue)
       IN  /\ jat' = Collect(jat, 0, live)
           /\ jnext' = Collect(jnext, 0, live)
           /\ jlast' = Collect(jlast, -1, live)
           /\ jsrc' = Collect(jsrc, <<>>, live)
           /\ jerr' = Collect(jerr, FALSE, live)
    /\ scleared' = [scleared EXCEPT ![s] = JobSet(jobs)]
    /\ spc' = [spc EXCEPT ![s] = "arming"]
    /\ UNCHANGED <<fvars, wvars, qvars, now, chatNumeric, loaded, njobs,
                   tpc, tqueue, tpolled, invToday, tquiet, replaced, off>>

\* ... then schedule.every().day.at(send_time).do(background_job, ...): a new
\* Job with its next_run is appended to schedule.jobs.
SaveArm(s) ==
    /\ spc[s] = "arming"
    /\ LET j == njobs + 1
       IN  /\ njobs' = j
           /\ jat' = [jat EXCEPT ![j] = sarg[s].at]
           /\ jnext' = [jnext EXCEPT ![j] = NextRun(now, sarg[s].at, -1)]
           /\ jlast' = [jlast EXCEPT ![j] = -1]
           /\ jsrc' = [jsrc EXCEPT ![j] = sarg[s].sources]
           /\ jobs' = Append(jobs, j)
    /\ spc' = [spc EXCEPT ![s] = "idle"]
    /\ sarg' = [sarg EXCEPT ![s] = [at |-> 0, sources |-> <<>>]]
    /\ scleared' = [scleared EXCEPT ![s] = {}]
    /\ off' = "no"
    /\ tquiet' = [t \in Sessions |-> FALSE]
    /\ replaced' = (replaced \cup scleared[s]) \cap Live(<<>>, tqueue)
    /\ UNCHANGED <<fvars, wvars, qvars, now, chatNumeric, loaded, tpc, tqueue, tpolled, invToday, jerr>>

\* "Send Now (Test)": validation, then get_news, the digest and one POST.
\* Nothing of the schedule is touched.
SendNow(s, src, resp) ==
    /\ loaded[s] /\ spc[s] = "idle"
    /\ UNCHANGED <<fvars, wvars, qvars, pvars, invToday, tquiet, replaced, off, scleared, jerr>>

\* What a rejected save met and did: sched and sched2 are the schedule (the
\* list of jobs and the fields of the jobs) before and after it.
RejectedSave(sched, sched2) ==
    [met |-> IF sched[1] = <<>> THEN "empty" ELSE "armed", changed |-> sched2 # sched]

\* The network calls of one foreground operation on selection src.
NetOfSave(src) == [op |-> "save", bad |-> ~ConfigValid(src), gets |-> 0, posts |-> 0]
NetOfSend(src, resp) ==
    IF SendAccepted(src)
    THEN [op |-> "send", bad |-> ~ConfigValid(src),
          gets |-> Len(GetNews(src, resp, DefaultCap).gets), posts |-> 1]
    ELSE [op |-> "send", bad |-> ~ConfigValid(src), gets |-> 0, posts |-> 0]

(***************************************************************************)
(* Spec: the scheduler_loop threads and the clock                          *)
(***************************************************************************)
\* schedule.run_pending() takes the runnable jobs; with none it returns and
\* the loop sleeps.
Poll(t) ==
    /\ tpc[t] = "sleep"
    /\ LET q == Runnable(jobs, Len(jobs))
       IN  /\ tqueue' = [tqueue EXCEPT ![t] = q]
           /\ tpc' = [tpc EXCEPT ![t] = IF q = <<>> THEN "sleep" ELSE "picked"]
           /\ tpolled' = [tpolled EXCEPT ![t] = (q = <<>>)]
    /\ tquiet' = [tquiet EXCEPT ![t] = (off = "ok")]
    /\ UNCHANGED <<fvars, wvars, qvars, now, chatNumeric, loaded, spc, sarg, jobs, njobs, jat, jnext,
                   jlast, jsrc, invToday, replaced, off, scleared, net, jerr, rej>>

\* run_pending calls the next runnable job: job.run() invokes the closure
\* background_job(token, chat_id, api_key, sources).
Invoke(t) ==
    /\ tpc[t] = "picked"
    /\ LET j == Head(tqueue[t])
       IN  invToday' = [invToday EXCEPT ![j] = @ + 1]
    /\ tpc' = [tpc EXCEPT ![t] = "running"]
    /\ UNCHANGED <<fvars, wvars, qvars, now, chatNumeric, loaded, spc, sarg, jobs, njobs, jat, jnext,
                   jlast, jsrc, tqueue, tpolled, tquiet, replaced, off, scleared, net, jerr, rej>>

\* background_job ends, by its last statement or by its except clause when
\* its body raised: job.run() sets last_run and the next next_run.
JobEnds(t, raised) ==
    /\ tpc[t] = "running"
    /\ tqueue' = [tqueue EXCEPT ![t] = Tail(@)]
    /\ LET j == Head(tqueue[t])
           live == Live(jobs, [tqueue EXCEPT ![t] = Tail(@)])
       IN  /\ jlast' = Collect([jlast EXCEPT ![j] = now], -1, live)
           /\ jnext' = Collect([jnext EXCEPT ![j] = NextRun(now, jat[j], now)], 0, live)
           /\ jat' = Collect(jat, 0, live)
           /\ jsrc' = Collect(jsrc, <<>>, live)
           /\ jerr' = Collect([jerr EXCEPT ![j] = @ \/ raised], FALSE, live)
    /\ tpc' = [tpc EXCEPT ![t] = LoopPc(raised, Tail(tqueue[t]))]
    /\ tpolled' = [tpolled EXCEPT ![t] = (Tail(tqueue[t]) = <<>>)]
    /\ replaced' = replaced \cap Live(<<>>, [tqueue EXCEPT ![t] = Tail(@)])
    /\ UNCHANGED <<fvars, wvars, qvars, now, chatNumeric, loaded, spc, sarg, jobs, njobs,
                   invToday, tquiet, off, scleared, net, rej>>

JobReturns(t) == JobEnds(t, FALSE)
JobFails(t) == JobEnds(t, TRUE)

\* The clock moves to the next slot. The loop sleeps one second and a slot
\* is a minute or more: every thread has been through run_pending in the slot.
Tick ==
    /\ now < MaxTime
    /\ \A t \in Sessions : tpc[t] # "none" => (tpc[t] = "sleep" /\ tpolled[t])
    /\ now' = now + 1
    /\ tpolled' = [t \in Sessions |-> FALSE]
    /\ invToday' = IF DayOf(now + 1) # DayOf(now) THEN [j \in JobIds |-> 0] ELSE invToday
    /\ UNCHANGED <<fvars, wvars, qvars, chatNumeric, loaded, spc, sarg, jobs, njobs, jat, jnext, jlast,
                   jsrc, tpc, tqueue, tquiet, replaced, off, scleared, net, jerr, rej>>

\* The steps that read or write the schedule. "Send Now (Test)" touches
\* none of it and is a step of SpecUI.
Next ==
    \/ \E s \in Sessions : OpenSession(s) /\ UNCHANGED <<net, rej>>
    \/ \E s \in Sessions, src \in Selections, act \in BOOLEAN :
           SaveRejected(s, src, act) /\ UNCHANGED <<net, rej>>
    \/ \E s \in Sessions, src \in Selections : SaveOff(s, src) /\ UNCHANGED <<net, rej>>
    \/ \E s \in Sessions, src \in Selections, at \in TimesOfDay :
           SaveClear(s, src, at) /\ UNCHANGED <<net, rej>>
    \/ \E s \in Sessions : SaveArm(s) /\ UNCHANGED <<net, rej>>
    \/ \E t \in Sessions : Poll(t)
    \/ \E t \in Sessions : Invoke(t)
    \/ \E t \in Sessions : JobReturns(t)
    \/ \E t \in Sessions : JobFails(t)
    \/ Tick

Spec == Init /\ [][Next]_vars

(***************************************************************************)
(* SpecUI: the foreground handlers alone, with their network calls         *)
(***************************************************************************)
NextUI ==
    \/ \E s \in Sessions : OpenSession(s) /\ UNCHANGED <<net, rej>>
    \/ \E s \in Sessions, src \in Selections, act \in BOOLEAN :
           /\ SaveRejected(s, src, act)
           /\ net' = NetOfSave(src)
           /\ rej' = RejectedSave(<<jobs, jat, jnext, jlast, jsrc>>,
                                  <<jobs', jat', jnext', jlast', jsrc'>>)
    \/ \E s \in Sessions, src \in Selections :
           SaveOff(s, src) /\ net' = NetOfSave(src) /\ UNCHANGED rej
    \/ \E s \in Sessions, src \in Selections, at \in TimesOfDay :
           SaveClear(s, src, at) /\ UNCHANGED <<net, rej>>
    \/ \E s \in Sessions : SaveArm(s) /\ net' = NetOfSave(sarg[s].sources) /\ UNCHANGED rej
    \/ \E s \in Sessions, src \in Selections, resp \in [KnownSources -> LiveResponses] :
           SendNow(s, src, resp) /\ net' = NetOfSend(src, resp) /\ UNCHANGED rej

SpecUI == Init /\ [][NextUI]_vars

(***************************************************************************)
(* SpecCapture: the widgets of the sessions, the saves that read them and  *)
(* the parameters a job's closure is invoked with                          *)
(***************************************************************************)
\* What the three widgets can hold.
Widgets == [sources : Selections, at : TimesOfDay, act : BOOLEAN]

\* The user changes one widget of session s and presses no button: the
\* script runs again with the new values and neither handler runs.
SetWidgets(s, w) ==
    /\ loaded[s] /\ spc[s] = "idle"
    /\ Cardinality({f \in {"sources", "at", "act"} : w[f] # ui[s][f]}) = 1
    /\ ui' = [ui EXCEPT ![s] = w]
    /\ UNCHANGED <<fvars, pvars, hvars, lastfire, qvars>>

FireSourcesOfWidgets(j, w) == w[CHOOSE s \in Sessions : loaded[s]].sources
\* The `sources` background_job receives when the closure of job j is
\* called: the keyword argument .do() stored in the job.
FireSources(j, w) == jsrc[j]

\* A scheduler thread's run_pending calls the closure of the scheduled job j
\* (when that happens is the matter of Spec).
FireJob(j) ==
    /\ j \in JobSet(jobs)
    /\ lastfire' = [job |-> j, sources |-> FireSources(j, ui)]
    /\ UNCHANGED <<fvars, pvars, hvars, ui, qvars>>

NextCapture ==
    \/ \E s \in Sessions : OpenSession(s) /\ UNCHANGED <<net, rej>>
    \/ \E s \in Sessions, w \in Widgets : SetWidgets(s, w)
    \/ \E s \in Sessions :
           SaveRejected(s, ui[s].sources, ui[s].act) /\ UNCHANGED <<net, rej>>
    \/ \E s \in Sessions :
           ~ui[s].act /\ SaveOff(s, ui[s].sources) /\ UNCHANGED <<net, rej>>
    \/ \E s \in Sessions :
           ui[s].act /\ SaveClear(s, ui[s].sources, ui[s].at) /\ UNCHANGED <<net, rej>>
    \/ \E s \in Sessions : SaveArm(s) /\ UNCHANGED <<net, rej>>
    \/ \E j \in JobIds : FireJob(j)

SpecCapture == Init /\ [][NextCapture]_vars

\* C13: a job's closure is called with the sources its save captured, and
\* while a job stays scheduled nothing changes its time or its sources; a
\* change of the widgets without a save changes nothing of the schedule.
C13_FireUsesCapturedParameters ==
    [][/\ (ui' # ui) => UNCHANGED <<jobs, jat, jnext, jlast, jsrc>>
       /\ \A j \in JobSet(jobs) \cap JobSet(jobs') :
              jat'[j] = jat[j] /\ jsrc'[j] = jsrc[j]
       /\ (lastfire' # lastfire) => lastfire'.sources = jsrc[lastfire'.job]]_vars

\* C13 witness: a scheduled job was invoked with its captured sources while
\* the widgets of every open session show another selection and another
\* time, activation unchecked.
C13_Witness ==
    /\ lastfire.job \in JobSet(jobs)
    /\ lastfire.sources = jsrc[lastfire.job]
    /\ lastfire.sources # <<>>
    /\ \A s \in Sessions :
           loaded[s] => /\ ui[s].sources # jsrc[lastfire.job]
                        /\ ui[s].at # jat[lastfire.job]
                        /\ ~ui[s].act

(***************************************************************************)
(* send_telegram_message and the digest                                    *)
(***************************************************************************)
HttpOk == 200

\* How requests.post can end: a response with its status code, or an
\* exception (timeout, connection error).
PostOutcomes ==
    {[kind |-> "status", code |-> c] : c \in {HttpOk, 201, 403}}
    \cup {[kind |-> "exc", code |-> 0]}

SendTelegramMessageAny2xx(o) ==
    IF o.kind = "status" /\ o.code \in 200..299
    THEN [ret |-> TRUE, raised |-> FALSE, infos |-> 1, errors |-> 0]
    ELSE [ret |-> FALSE, raised |-> FALSE, infos |-> 0, errors |-> 1]
\* send_telegram_message once its POST has ended as o: what it returns,
\* whether it raises, and its logging.info and logging.error calls.
SendTelegramMessage(o) ==
    IF o.kind = "exc"
    THEN [ret |-> FALSE, raised |-> FALSE, infos |-> 0, errors |-> 1]
    ELSE IF o.code = HttpOk
         THEN [ret |-> TRUE, raised |-> FALSE, infos |-> 1, errors |-> 0]
         ELSE [ret |-> FALSE, raised |-> FALSE, infos |-> 0, errors |-> 1]

AttemptsWithRetry(o) == IF o.kind = "status" /\ o.code = HttpOk THEN 1 ELSE 2
\* requests.post calls of one send_telegram_message: one, in no loop.
Attempts(o) == 1

\* date_str = datetime.now().strftime("%Y-%m-%d")
Dates == {"2026-11-01", "2026-11-02"}

\* The label of the header: the handler writes "(Test)", background_job
\* nothing.
Label(p) == IF p = "manual" THEN " (Test)" ELSE ""

\* The header line (the emoji of the source text are left out).
Header(label, date) == "*AI News Headlines" \o label \o " (" \o date \o ")*\n\n"

NumberedLineFromZero(i, hl) == ToString(i - 1) \o ". " \o hl \o "\n\n"
\* f"{i}. {hl}\n\n"
NumberedLine(i, hl) == ToString(i) \o ". " \o hl \o "\n\n"

\* `for i, hl in enumerate(headlines, start=1): headline_text += ...`,
\* for the first k headlines.
RECURSIVE NumberedLines(_, _)
NumberedLines(headlines, k) ==
    IF k = 0 THEN ""
    ELSE NumberedLines(headlines, k - 1) \o NumberedLine(k, headlines[k])

FormatDigest(headlines, label, date) ==
    Header(label, date) \o NumberedLines(headlines, Len(headlines))

(***************************************************************************)
(* SpecPipe: a "Send Now (Test)" run and a background_job run, statement   *)
(* by statement, side by side                                              *)
(***************************************************************************)
\* What the provider answers while the pipelines run.
PipeResponses == LiveResponses \cup {[kind |-> "ok", articles |-> <<>>]}

Other(p) == CHOOSE q \in Pipes : q # p
Running(p) == ppc[p] \in {"fetch", "format", "send"}

ListShared(p) == "manual"
\* The list `headlines` a get_news call works on: a local of the call.
ListOf(p) == p

\* The process after session s1 has opened the app and saved with activation
\* checked: one job is armed, its scheduler thread sleeps, no pipeline runs.
PipeInit ==
    /\ FetchIdle
    /\ chatNumeric = TRUE
    /\ now = 0
    /\ loaded = [s \in Sessions |-> s = "s1"]
    /\ spc = [s \in Sessions |-> "idle"]
    /\ sarg = [s \in Sessions |-> [at |-> 0, sources |-> <<>>]]
    /\ jobs = <<1>>
    /\ njobs = 1
    /\ jat = [j \in JobIds |-> 0]
    /\ jnext = [j \in JobIds |-> IF j = 1 THEN DayLen ELSE 0]
    /\ jlast = [j \in JobIds |-> -1]
    /\ \E src \in Selections \ {<<>>} :
           /\ jsrc = [j \in JobIds |-> IF j = 1 THEN src ELSE <<>>]
           /\ ui = [s \in Sessions |->
                       IF s = "s1" THEN [sources |-> src, at |-> 0, act |-> TRUE]
                       ELSE WidgetDefaults]
    /\ tpc = [t \in Sessions |-> IF t = "s1" THEN "sleep" ELSE "none"]
    /\ tqueue = [t \in Sessions |-> <<>>]
    /\ tpolled = [t \in Sessions |-> FALSE]
    /\ invToday = [j \in JobIds |-> 0]
    /\ tquiet = [t \in Sessions |-> FALSE]
    /\ replaced = {}
    /\ off = "no"
    /\ scleared = [s \in Sessions |-> {}]
    /\ net = NoOp
    /\ jerr = [j \in JobIds |-> FALSE]
    /\ rej = NoRejected
    /\ lastfire = NoFire
    /\ PipeIdle

\* Pipeline p starts on the sources src: get_news is called and sets
\* `headlines = []`.
Start(p, src) ==
    /\ ~Running(p)
    /\ ppc' = [ppc EXCEPT ![p] = "fetch"]
    /\ psrc' = [psrc EXCEPT ![p] = src]
    /\ pidx' = [pidx EXCEPT ![p] = 1]
    /\ phl' = [phl EXCEPT ![ListOf(p)] = <<>>]
    /\ presp' = [presp EXCEPT ![p] = [k \in KnownSources |-> NoResp]]
    /\ pbatch' = [pbatch EXCEPT ![p] = <<>>]
    /\ pdate' = [pdate EXCEPT ![p] = ""]
    /\ pmsg' = [pmsg EXCEPT ![p] = ""]
    /\ pout' = [pout EXCEPT ![p] = NoPost]
    /\ ppost' = [ppost EXCEPT ![p] = 0]
    /\ psend' = [psend EXCEPT ![p] = NoSend]
    /\ pover' = [pover EXCEPT ![p] = Running(Other(p))]
    /\ UNCHANGED <<fvars, pvars, hvars, wvars>>

\* "Send Now (Test)" pressed in session s with a selection the handler
\* accepts.
StartManual(s, src) ==
    /\ loaded[s] /\ spc[s] = "idle"
    /\ SendAccepted(src)
    /\ Start("manual", src)

\* A scheduler thread calls the closure of the scheduled job j.
StartFire(j) ==
    /\ j \in JobSet(jobs)
    /\ Start("fire", FireSources(j, ui))

\* `for src in sources` of get_news: the list is exhausted, or the id is
\* not in NEWS_SOURCES_MAP and is skipped.
LoopStep(p) ==
    /\ ppc[p] = "fetch"
    /\ \/ /\ pidx[p] > Len(psrc[p])
          /\ ppc' = [ppc EXCEPT ![p] = "format"]
          /\ UNCHANGED pidx
       \/ /\ pidx[p] <= Len(psrc[p])
          /\ ~IsKnown(psrc[p][pidx[p]])
          /\ pidx' = [pidx EXCEPT ![p] = @ + 1]
          /\ UNCHANGED ppc
    /\ pover' = [pover EXCEPT ![p] = @ \/ Running(Other(p))]
    /\ UNCHANGED <<fvars, pvars, hvars, wvars, psrc, phl, presp, pbatch, pdate, pmsg,
                   pout, ppost, psend>>

\* One GET of get_news, answered by r: an exception leaves the loop for the
\* except clause; otherwise the titles are appended and the loop goes on
\* unless the cap is reached.
Get(p, r) ==
    /\ ppc[p] = "fetch"
    /\ pidx[p] <= Len(psrc[p])
    /\ IsKnown(psrc[p][pidx[p]])
    /\ presp' = [presp EXCEPT ![p][psrc[p][pidx[p]]] = r]
    /\ LET h == phl[ListOf(p)]
           h2 == IF r.kind = "ok" THEN ExtractTitles(h, r.articles, 1, DefaultCap) ELSE h
       IN  /\ phl' = [phl EXCEPT ![ListOf(p)] = IF Raises(r) THEN h ELSE h2]
           /\ IF Raises(r) \/ CapReached(h2, DefaultCap)
              THEN ppc' = [ppc EXCEPT ![p] = "format"] /\ UNCHANGED pidx
              ELSE pidx' = [pidx EXCEPT ![p] = @ + 1] /\ UNCHANGED ppc
    /\ pover' = [pover EXCEPT ![p] = @ \/ Running(Other(p))]
    /\ UNCHANGED <<fvars, pvars, hvars, wvars, psrc, pbatch, pdate, pmsg, pout, ppost,
                   psend>>

\* get_news returns its batch; the caller reads the date and builds the
\* text.
Format(p, date) ==
    /\ ppc[p] = "format"
    /\ LET batch == ReturnBatch(phl[ListOf(p)], DefaultCap)
       IN  /\ pbatch' = [pbatch EXCEPT ![p] = batch]
           /\ pmsg' = [pmsg EXCEPT ![p] = FormatDigest(batch, Label(p), date)]
    /\ pdate' = [pdate EXCEPT ![p] = date]
    /\ pidx' = [pidx EXCEPT ![p] = 0]
    /\ ppc' = [ppc EXCEPT ![p] = "send"]
    /\ pover' = [pover EXCEPT ![p] = @ \/ Running(Other(p))]
    /\ UNCHANGED <<fvars, pvars, hvars, wvars, psrc, phl, presp, pout, ppost, psend>>

\* send_telegram_message: the POST ends as o, the function logs and returns,
\* the caller reports the result.
Post(p, o) ==
    /\ ppc[p] = "send"
    /\ pout' = [pout EXCEPT ![p] = o]
    /\ ppost' = [ppost EXCEPT ![p] = @ + Attempts(o)]
    /\ psend' = [psend EXCEPT ![p] = SendTelegramMessage(o)]
    /\ ppc' = [ppc EXCEPT ![p] = "done"]
    /\ pover' = [pover EXCEPT ![p] = @ \/ Running(Other(p))]
    /\ UNCHANGED <<fvars, pvars, hvars, wvars, psrc, pidx, phl, presp, pbatch, pdate, pmsg>>

NextPipe ==
    \/ \E s \in Sessions, src \in Selections : StartManual(s, src)
    \/ \E j \in JobIds : StartFire(j)
    \/ \E p \in Pipes : LoopStep(p)
    \/ \E p \in Pipes, r \in PipeResponses : Get(p, r)
    \/ \E p \in Pipes, date \in Dates : Format(p, date)
    \/ \E p \in Pipes, o \in PostOutcomes : Post(p, o)

SpecPipe == PipeInit /\ [][NextPipe]_vars

(***************************************************************************)
(* Claims about the schedule                                               *)
(***************************************************************************)
Threads == {t \in Sessions : tpc[t] # "none"}

\* C2: an armed job no save has changed has its closure invoked exactly once
\* on each day the clock reaches its time: never twice in a day, never left
\* behind by the clock, and after a run its next run is the following day at
\* the same time.
C2_ExactlyOncePerDay ==
    \A j \in JobSet(jobs) :
        /\ invToday[j] <= 1
        /\ jnext[j] >= now
        /\ jlast[j] # -1 => jnext[j] = (DayOf(jlast[j]) + 1) * DayLen + jat[j]

\* C2 with the one scheduler thread the specification assumes.
C2_OncePerDayWithOneThread ==
    Cardinality(Threads) <= 1 => C2_ExactlyOncePerDay

\* C3 as stated: after every save with activation unchecked the schedule is
\* empty, and no tick begun after it invokes a job, until a job is added.
C3_EverySaveOffSilences ==
    /\ off # "no" => jobs = <<>>
    /\ \A t \in Sessions : tquiet[t] => tpc[t] = "sleep"

\* C3 amended: after every save with activation unchecked that passes the
\* handler's validation the schedule is empty, and no tick begun after it
\* invokes a job, until a job is added.
C3_AcceptedSaveOffSilences ==
    /\ off = "ok" => jobs = <<>>
    /\ \A t \in Sessions : tquiet[t] => tpc[t] = "sleep"

\* C3 witness: an armed job was cleared by an accepted unchecked save and a
\* thread has been through run_pending since.
C3_Witness ==
    /\ off = "ok"
    /\ Discarded # {}
    /\ \E t \in Sessions : tquiet[t] /\ tpolled[t]

\* C4: once a save-with-activation that replaced an armed job has completed,
\* the closure of the old job is never invoked again.
C4_ReplacedJobNeverInvoked ==
    [][\A t \in Sessions :
         (tpc[t] = "picked" /\ tpc'[t] = "running") => Head(tqueue[t]) \notin replaced]_vars

\* C5: at most one scheduler_loop thread exists in the process.
C5_AtMostOneThread == Cardinality(Threads) <= 1

\* A step in which thread t goes through run_pending and finds nothing to run.
IdlePoll(t) == tpc[t] = "sleep" /\ ~tpolled[t] /\ tpolled'[t]

\* C7: while a save replaces an armed job, a tick sees the old job or the new
\* one, never an empty schedule.
C7_TickSeesOldOrNew ==
    [][\A t \in Sessions : (Replacing /\ IdlePoll(t)) => jobs # <<>>]_vars

\* C17: in every reachable state the process-wide schedule holds at most one
\* job.
C17_AtMostOneEntry == Len(jobs) <= 1

\* C17 while no two saves overlap: no session is between its clear() and
\* its do() when another session saves.
C17_OneEntryWithOneSession ==
    Cardinality({s \in Sessions : loaded[s]}) <= 1 => Len(jobs) <= 1

\* C14: the polling loop never stops. No thread is ever lost to an
\* exception, in particular not to one raised inside the body of the job; and
\* a job that had a failed run stays armed for a time after that run.
C14_LoopNeverStops ==
    /\ \A t \in Sessions : tpc[t] \in {"none", "sleep", "picked", "running"}
    /\ \A t \in Sessions : loaded[t] => tpc[t] # "none"
    /\ \A j \in JobSet(jobs) :
           (jerr[j] /\ jlast[j] # -1) =>
               /\ jnext[j] > jlast[j]
               /\ jnext[j] = (DayOf(jlast[j]) + 1) * DayLen + jat[j]

\* C14 witness: a job with a failed run is invoked again on a later day.
C14_Witness ==
    \E t \in Sessions :
        /\ tpc[t] = "running"
        /\ Head(tqueue[t]) \in JobSet(jobs)
        /\ jerr[Head(tqueue[t])]
        /\ DayOf(now) > DayOf(jlast[Head(tqueue[t])])

(***************************************************************************)
(* Claims about the foreground handlers                                    *)
(***************************************************************************)
\* C6: a foreground operation on an invalid configuration (chat id not
\* numeric, no source selected) issues no GET and no POST.
C6_InvalidConfigNoNetwork ==
    net.bad => (net.gets = 0 /\ net.posts = 0)

\* C6 for the save handler alone, which does validate the chat id.
C6_SaveNoNetwork ==
    net.op = "save" => (net.gets = 0 /\ net.posts = 0)

\* C18: a save rejected by the handler's validation (chat id not numeric, no
\* source selected) leaves the schedule as it met it: the same jobs with the
\* same time, next run and captured sources, or no job.
C18_RejectedSaveKeepsSchedule == ~rej.changed

\* C18 witness: a save was rejected while a job was armed, and the job is
\* still armed.
C18_Witness ==
    /\ rej.met = "armed"
    /\ net.op = "save" /\ net.bad
    /\ jobs # <<>>

(***************************************************************************)
(* Claims about the pipelines                                              *)
(***************************************************************************)
\* C11: send_telegram_message returns true exactly when the POST completed
\* with status 200; with any other status or a transport exception it
\* returns false and does not raise; and it writes exactly one log entry.
C11_SendResult ==
    \A p \in Pipes :
        ppc[p] = "done" =>
            /\ psend[p].ret <=> (pout[p].kind = "status" /\ pout[p].code = 200)
            /\ ~psend[p].raised
            /\ psend[p].infos + psend[p].errors = 1

\* C11 witness: a POST answered 201 made the call return false with one
\* error entry, and a POST that raised did the same in the other pipeline.
C11_Witness ==
    /\ ppc["manual"] = "done" /\ pout["manual"] = [kind |-> "status", code |-> 201]
    /\ ~psend["manual"].ret /\ psend["manual"].errors = 1
    /\ ppc["fire"] = "done" /\ pout["fire"].kind = "exc"
    /\ ~psend["fire"].ret /\ psend["fire"].errors = 1

\* Every source of the list of p was asked and failed.
AllFailed(p) ==
    \A i \in 1..Len(psrc[p]) : presp[p][psrc[p][i]].kind \in {"exc", "notok"}

\* The POSTs of a trigger (one invocation of a job, one accepted "Send
\* Now"): none before its send, one once it has ended, whatever the fetch
\* and the POST gave; when every source failed the placeholder digest is
\* what is sent.
OnePostPerTrigger ==
    \A p \in Pipes :
        /\ Running(p) => ppost[p] = 0
        /\ ppc[p] = "done" => ppost[p] = 1
        /\ (ppc[p] = "done" /\ AllFailed(p)) => pbatch[p] = <<Placeholder>>

\* The statements of a running pipeline are executed: every request has
\* timeout=10 and nothing in a pipeline waits for the other.
PipeStep(p) ==
    \/ LoopStep(p)
    \/ \E r \in PipeResponses : Get(p, r)
    \/ \E date \in Dates : Format(p, date)
    \/ \E o \in PostOutcomes : Post(p, o)

SpecPipeFair == SpecPipe /\ \A p \in Pipes : WF_vars(PipeStep(p))

\* C12: every trigger with a configuration the handlers accept makes
\* exactly one delivery attempt: its pipeline reaches the end of its send,
\* and has then made one POST and never more, whether the fetch failed for
\* every source (the placeholder digest is sent) or the POST failed (it is
\* not repeated).
C12_ExactlyOnePost ==
    /\ []OnePostPerTrigger
    /\ \A p \in Pipes : (ppc[p] = "fetch") ~> (ppc[p] = "done")

\* C12 witness: both sources failed, the placeholder digest was posted once,
\* the POST failed and nothing was posted again.
C12_Witness ==
    \E p \in Pipes :
        /\ ppc[p] = "done"
        /\ Len(psrc[p]) = 2 /\ AllFailed(p)
        /\ pout[p].kind = "exc"
        /\ ppost[p] = 1

\* The blocks of text, each ended by an empty line, from character k on;
\* start is where the current block began.
RECURSIVE SplitBlocks(_, _, _)
SplitBlocks(text, start, k) ==
    IF k + 1 > Len(text)
    THEN IF start > Len(text) THEN <<>> ELSE <<SubSeq(text, start, Len(text))>>
    ELSE IF SubSeq(text, k, k + 1) = "\n\n"
         THEN <<SubSeq(text, start, k - 1)>> \o SplitBlocks(text, k + 2, k + 2)
         ELSE SplitBlocks(text, start, k + 1)

Contains(text, part) ==
    \E k \in 1..(Len(text) - Len(part) + 1) : SubSeq(text, k, k + Len(part) - 1) = part

\* C15: after its header line the digest has exactly one line per headline
\* of the batch, the i-th being "i. headline", in batch order; the header
\* carries the date and, for a manual send, the label "(Test)"; a manual
\* send whose single source gave no headline sends the line
\* "1. No news headlines found.".
C15_DigestLines ==
    \A p \in Pipes :
        ppc[p] \in {"send", "done"} =>
            LET blocks == SplitBlocks(pmsg[p], 1, 1)
            IN  /\ Len(blocks) = Len(pbatch[p]) + 1
                /\ \A i \in 1..Len(pbatch[p]) :
                       blocks[i + 1] = ToString(i) \o ". " \o pbatch[p][i]
                /\ Contains(blocks[1], pdate[p])
                /\ Contains(blocks[1], "(Test)") <=> p = "manual"
                /\ (p = "manual" /\ Len(psrc[p]) = 1
                       /\ presp[p][psrc[p][1]] = [kind |-> "ok", articles |-> <<>>])
                   => /\ Len(blocks) = 2
                      /\ blocks[2] = "1. No news headlines found."

\* C15 witness: the manual send whose single source answered without a
\* headline posted the placeholder digest.
C15_Witness ==
    /\ ppc["manual"] = "done"
    /\ psrc["manual"] = <<"bbc-news">>
    /\ presp["manual"]["bbc-news"] = [kind |-> "ok", articles |-> <<>>]
    /\ pmsg["manual"] = "*AI News Headlines (Test) (2026-11-01)*\n\n1. No news headlines found.\n\n"
    /\ ppost["manual"] = 1

\* C19: whatever the interleaving of a manual send and a scheduled run, the
\* headlines each has collected and the batch each sends are the ones
\* get_news gives for its own sources and the answers to its own requests,
\* and each ends with its own single POST.
C19_PipelinesIndependent ==
    \A p \in Pipes :
        /\ ppc[p] = "fetch" =>
               phl[p] = GetNews(SubSeq(psrc[p], 1, pidx[p] - 1), presp[p],
                                DefaultCap).collected
        /\ ppc[p] \in {"send", "done"} =>
               pbatch[p] = GetNews(psrc[p], presp[p], DefaultCap).ret
        /\ ppc[p] = "done" => (ppost[p] = 1 /\ pout[p] # NoPost)

\* C19 witness: the two runs overlapped on the same source list; one was
\* answered a headline and the other a failure, and each sent its own batch.
C19_Witness ==
    /\ ppc["manual"] = "done" /\ ppc["fire"] = "done"
    /\ pover["manual"] /\ pover["fire"]
    /\ psrc["manual"] = psrc["fire"]
    /\ pbatch["manual"] = <<"A">>
    /\ pbatch["fire"] = <<Placeholder>>

====
